---------------------------- MODULE Spec2Model ----------------------------
(***************************************************************************)
(* HydroMate (src/main.py): an interactive calculator of hydroponic        *)
(* nutrient doses.  main() loads the formulas from an SQLite store, reads   *)
(* a formula id, a volume and a dilution factor from the operator, and      *)
(* prints the mass of every chemical of the formula.                         *)
(*                                                                           *)
(* Text is modelled as sequences of one-character strings, so that strip(), *)
(* lower(), str(), int() and float() are computed and not assumed.  Python  *)
(* floats are modelled as decimal numbers m * 10^e (kept normalised), plus  *)
(* the two special values float() can parse, nan and +-inf.                  *)
(***************************************************************************)
EXTENDS Integers, Sequences, FiniteSets, TLC

\* Python's None: a variable holds None or <<v>>, its value v
None == <<>>
Some(v) == <<v>>

\* SQLite's NULL in a text column, and in a numeric column
NULL == "NULL"
NullNum == [k |-> "null", m |-> 0, e |-> 0]

(***************************************************************************)
(* Text.                                                                   *)
(***************************************************************************)
Digits == <<"0", "1", "2", "3", "4", "5", "6", "7", "8", "9">>

IsDigit(c) == \E i \in 1..10 : Digits[i] = c

DigitVal(c) == (CHOOSE i \in 1..10 : Digits[i] = c) - 1

UpperChars == <<"Q", "N", "A", "I", "F", "X">>
LowerChars == <<"q", "n", "a", "i", "f", "x">>

\* str.lower(), one character
LowerChar(c) ==
    IF \E i \in 1..Len(UpperChars) : UpperChars[i] = c
    THEN LowerChars[CHOOSE i \in 1..Len(UpperChars) : UpperChars[i] = c]
    ELSE c

\* str.lower()
Lower(s) == [i \in 1..Len(s) |-> LowerChar(s[i])]

IsSpace(c) == c = " "

RECURSIVE LStrip(_)
LStrip(s) ==
    IF s # <<>> /\ IsSpace(Head(s)) THEN LStrip(Tail(s)) ELSE s

RECURSIVE RStrip(_)
RStrip(s) ==
    IF s # <<>> /\ IsSpace(s[Len(s)]) THEN RStrip(SubSeq(s, 1, Len(s) - 1)) ELSE s

\* str.strip()
Strip(s) == RStrip(LStrip(s))

\* str(n) of a non-negative integer
RECURSIVE NatToStr(_)
NatToStr(n) ==
    IF n < 10 THEN <<Digits[n + 1]>>
    ELSE Append(NatToStr(n \div 10), Digits[(n % 10) + 1])

\* str(n) of an integer
IntToStr(n) == IF n < 0 THEN <<"-">> \o NatToStr(0 - n) ELSE NatToStr(n)

AllDigits(s) == s # <<>> /\ \A i \in 1..Len(s) : IsDigit(s[i])

RECURSIVE DigitsToNat(_)
DigitsToNat(s) ==
    IF s = <<>> THEN 0
    ELSE 10 * DigitsToNat(SubSeq(s, 1, Len(s) - 1)) + DigitVal(s[Len(s)])

IsSign(c) == c = "+" \/ c = "-"

\* int(s) for a string of an optional sign and digits
StrToInt(s) ==
    IF s # <<>> /\ IsSign(Head(s))
    THEN (IF Head(s) = "-" THEN 0 - DigitsToNat(Tail(s)) ELSE DigitsToNat(Tail(s)))
    ELSE DigitsToNat(s)

(***************************************************************************)
(* Numbers.  A finite float is the decimal m * 10^e with m not a multiple   *)
(* of ten (zero is m = 0, e = 0); nan and inf are float("nan") and          *)
(* float("inf"), inf carrying its sign in m.                                 *)
(***************************************************************************)
RECURSIVE Norm(_, _)
Norm(m, e) ==
    IF m = 0 THEN [k |-> "fin", m |-> 0, e |-> 0]
    ELSE IF m % 10 = 0 THEN Norm(m \div 10, e + 1)
    ELSE [k |-> "fin", m |-> m, e |-> e]

NaN == [k |-> "nan", m |-> 0, e |-> 0]
Inf(sign) == [k |-> "inf", m |-> sign, e |-> 0]
Num(n) == Norm(n, 0)

Sign(x) == IF x.m > 0 THEN 1 ELSE IF x.m < 0 THEN -1 ELSE 0

RECURSIVE Pow10(_)
Pow10(n) == IF n = 0 THEN 1 ELSE 10 * Pow10(n - 1)

\* a < b on floats: every comparison with nan is false
FLt(a, b) ==
    IF a.k = "nan" \/ b.k = "nan" THEN FALSE
    ELSE IF a.k = "inf" \/ b.k = "inf"
         THEN (IF a.k = "inf" /\ b.k = "inf" THEN a.m < b.m
               ELSE IF a.k = "inf" THEN a.m < 0
               ELSE b.m > 0)
    ELSE IF Sign(a) # Sign(b) THEN Sign(a) < Sign(b)
    ELSE LET lo == IF a.e < b.e THEN a.e ELSE b.e
         IN  a.m * Pow10(a.e - lo) < b.m * Pow10(b.e - lo)

\* a > b on floats
FGt(a, b) == FLt(b, a)

\* a * b on floats
FMul(a, b) ==
    IF a.k = "nan" \/ b.k = "nan" THEN NaN
    ELSE IF a.k = "inf" \/ b.k = "inf"
         THEN (IF Sign(a) * Sign(b) = 0 THEN NaN ELSE Inf(Sign(a) * Sign(b)))
    ELSE Norm(a.m * b.m, a.e + b.e)

\* a / 1000 on floats
FDiv1000(a) == IF a.k = "fin" THEN Norm(a.m, a.e - 3) ELSE a

\* The part of float(s) that reads a number written with digits and at most
\* one point: "12", "0.5", "5.", ".5".
DecimalOK(s) ==
    /\ \A i \in 1..Len(s) : IsDigit(s[i]) \/ s[i] = "."
    /\ Cardinality({i \in 1..Len(s) : s[i] = "."}) <= 1
    /\ \E i \in 1..Len(s) : IsDigit(s[i])

RECURSIVE DropPoint(_)
DropPoint(s) ==
    IF s = <<>> THEN <<>>
    ELSE IF Head(s) = "." THEN DropPoint(Tail(s))
    ELSE <<Head(s)>> \o DropPoint(Tail(s))

Decimals(s) ==
    IF \E i \in 1..Len(s) : s[i] = "."
    THEN Len(s) - (CHOOSE i \in 1..Len(s) : s[i] = ".")
    ELSE 0

ValueError == [k |-> "ValueError", m |-> 0, e |-> 0]

\* float(s): surrounding blanks dropped, an optional sign, then nan, inf or a
\* decimal number; anything else raises ValueError.  Exponents, underscores
\* and "infinity" are not read: no line of Lines holds them.
ParseFloat(line) ==
    LET s    == Strip(line)
        neg  == s # <<>> /\ Head(s) = "-"
        body == IF s # <<>> /\ IsSign(Head(s)) THEN Tail(s) ELSE s
        sg   == IF neg THEN -1 ELSE 1
    IN  IF Lower(body) = <<"n", "a", "n">> THEN NaN
        ELSE IF Lower(body) = <<"i", "n", "f">> THEN Inf(sg)
        ELSE IF DecimalOK(body)
             THEN Norm(sg * DigitsToNat(DropPoint(body)), 0 - Decimals(body))
        ELSE ValueError


(***************************************************************************)
(* The store: database.sqlite with the tables hydroponic_formulas,          *)
(* chemicals and formula_chemicals.  The program only reads it.  A column   *)
(* holds NULL, a number or,          for concentration, a text (SQLite does   *)
(* not enforce column types).                                                *)
(***************************************************************************)
Text == [k |-> "text", m |-> 0, e |-> 0]

F(id, name) == [id |-> id, name |-> name]
Ch(id, name, chem, abc) == [id |-> id, name |-> name, chem |-> chem, ABC |-> abc]
Link(fid, cid, conc) == [formula_id |-> fid, chemical_id |-> cid, concentration |-> conc]

\* two formulas; formula 1 has chemicals at 150 and 50 mg/L, formula 2 has none;
\* one link names a chemical that does not exist, one a formula that does not
DbTwoChemicals ==
    [formulas  |-> <<F(1, "Hoagland"), F(2, NULL)>>,
     chemicals |-> <<Ch(1, "Potassium nitrate", "KNO3", "B"),
                     Ch(2, "Calcium nitrate", NULL, "A")>>,
     formula_chemicals |-> <<Link(1, 1, Num(150)), Link(1, 2, Num(50)),
                             Link(1, 9, Num(70)), Link(7, 1, Num(20))>>]

\* a NULL and a negative concentration, in two chemicals of the same category
DbOddValues ==
    [formulas  |-> <<F(12, "")>>,
     chemicals |-> <<Ch(4, NULL, "", "C"), Ch(5, "Iron chelate", "FeEDTA", "C")>>,
     formula_chemicals |-> <<Link(12, 4, NullNum), Link(12, 5, Num(-5))>>]

\* a concentration stored as text
DbTextValue ==
    [formulas  |-> <<F(3, "Cooper")>>,
     chemicals |-> <<Ch(1, "Potassium nitrate", "KNO3", NULL)>>,
     formula_chemicals |-> <<Link(3, 1, Text)>>]

DbEmpty == [formulas |-> <<>>, chemicals |-> <<>>, formula_chemicals |-> <<>>]

Stores == {DbTwoChemicals, DbOddValues, DbTextValue, DbEmpty}

\* what a store access meets: no failure, a connection that cannot be opened,
\* or a query that fails on the open connection
Failures == {"none", "connect", "query"}

\* ORDER BY c.ABC: NULL first, then the labels in their byte order
CategoryRank(abc) ==
    IF abc = NULL THEN 0
    ELSE IF abc = "A" THEN 1
    ELSE IF abc = "B" THEN 2
    ELSE 3

\* formula_chemicals fc JOIN chemicals c ON fc.chemical_id = c.id
\* WHERE fc.formula_id = ?  -- the set of joined rows
Joined(db, formula_id) ==
    {[id |-> c.id, name |-> c.name, chem |-> c.chem, ABC |-> c.ABC,
      concentration |-> l.concentration] :
        <<l, c>> \in {p \in {<<db.formula_chemicals[i], db.chemicals[j]>> :
                               i \in 1..Len(db.formula_chemicals),
                               j \in 1..Len(db.chemicals)} :
                         /\ p[1].formula_id = formula_id
                         /\ p[1].chemical_id = p[2].id}}

\* cursor.fetchall() of the chemicals query: the joined rows in an order
\* ascending by category; SQL leaves the order among equal categories open
QueryChemicals(db, formula_id) ==
    LET rows == Joined(db, formula_id)
        n    == Cardinality(rows)
    IN  {s \in [1..n -> rows] :
            /\ \A i, j \in 1..n : i # j => s[i] # s[j]
            /\ \A i, j \in 1..n :
                 i < j => CategoryRank(s[i].ABC) <= CategoryRank(s[j].ABC)}

\* cursor.fetchall() of the formulas query: the table's rows in its own order
QueryFormulas(db) == db.formulas

\* Python's  x or ""
OrEmpty(x) == IF x = NULL THEN "" ELSE x

(***************************************************************************)
(* The repository functions.  Each returns a record: ret is the value       *)
(* returned, raised whether an exception leaves the function instead, out   *)
(* what it printed, opened and closed the connections it opened and closed. *)
(***************************************************************************)
get_db_connection(fail) ==
    IF fail = "connect"
    THEN [conn |-> None, out |-> <<"db_connect_failed">>]
    ELSE [conn |-> Some("conn"), out |-> <<>>]

get_all_formulas(db, fail) ==
    LET c == get_db_connection(fail)
    IN  IF c.conn = None
        THEN [ret |-> <<>>, raised |-> FALSE, out |-> c.out,
              opened |-> 0, closed |-> 0]
        ELSE IF fail = "query"
        THEN [ret |-> <<>>, raised |-> FALSE, out |-> <<"formulas_query_failed">>,
              opened |-> 1, closed |-> 0]
        ELSE LET res == QueryFormulas(db)
             IN  [ret |-> [i \in 1..Len(res) |->
                             [id |-> res[i].id, name |-> OrEmpty(res[i].name)]],
                  raised |-> FALSE, out |-> <<>>,
                  opened |-> 1, closed |-> 1]

\* lines 51-57: the dictionaries built from the fetched rows
ChemicalRows(res) ==
    [i \in 1..Len(res) |->
       [chemical_id |-> res[i].id,
        name |-> OrEmpty(res[i].name),
        chemical_formula |-> OrEmpty(res[i].chem),
        category |-> OrEmpty(res[i].ABC),
        concentration |-> IF res[i].concentration # NullNum
                          THEN res[i].concentration ELSE Num(0)]]

\* the same without the except clause: a failed query raises
get_formula_chemicals_raising(res, fail) ==
    LET c == get_db_connection(fail)
    IN  IF c.conn = None
        THEN [ret |-> <<>>, raised |-> FALSE, out |-> c.out,
              opened |-> 0, closed |-> 0]
        ELSE IF fail = "query"
        THEN [ret |-> <<>>, raised |-> TRUE, out |-> <<>>,
              opened |-> 1, closed |-> 0]
        ELSE [ret |-> ChemicalRows(res), raised |-> FALSE, out |-> <<>>,
              opened |-> 1, closed |-> 1]

\* res is what cursor.fetchall() returns when the query succeeds
get_formula_chemicals(res, fail) ==
    LET c == get_db_connection(fail)
    IN  IF c.conn = None
        THEN [ret |-> <<>>, raised |-> FALSE, out |-> c.out,
              opened |-> 0, closed |-> 0]
        ELSE IF fail = "query"
        THEN [ret |-> <<>>, raised |-> FALSE, out |-> <<"chemicals_query_failed">>,
              opened |-> 1, closed |-> 0]
        ELSE [ret |-> ChemicalRows(res), raised |-> FALSE, out |-> <<>>,
              opened |-> 1, closed |-> 1]

\* display_formulas: what it prints
display_formulas(formulas) ==
    IF formulas = <<>> THEN <<"no_formulas_found">> ELSE <<"formula_list">>

(***************************************************************************)
(* The input validator.  Each operator is one pass of the function's loop:  *)
(* from the line input() returns to the function's return (done) or to the  *)
(* next input().                                                             *)
(***************************************************************************)
\* what get_valid_formula_id prints on entry and again after a rejection
formula_prompt(formulas) == display_formulas(formulas) \o <<"prompt_formula_id">>

\* the same comparing the numbers and not their string forms
get_valid_formula_id_by_value(formulas, line) ==
    LET user_input == Strip(line)
    IN  IF Lower(user_input) = <<"q">>
        THEN [done |-> TRUE, ret |-> None, out |-> <<"quit">>]
        ELSE IF /\ AllDigits(user_input)
                /\ \E i \in 1..Len(formulas) : formulas[i].id = StrToInt(user_input)
        THEN [done |-> TRUE, ret |-> Some(StrToInt(user_input)), out |-> <<>>]
        ELSE [done |-> FALSE, ret |-> None,
              out |-> <<"invalid_id">> \o formula_prompt(formulas)]

get_valid_formula_id(formulas, line) ==
    LET formula_ids == [i \in 1..Len(formulas) |-> IntToStr(formulas[i].id)]
        user_input  == Strip(line)
    IN  IF Lower(user_input) = <<"q">>
        THEN [done |-> TRUE, ret |-> None, out |-> <<"quit">>]
        ELSE IF \E i \in 1..Len(formula_ids) : formula_ids[i] = user_input
        THEN [done |-> TRUE, ret |-> Some(StrToInt(user_input)), out |-> <<>>]
        ELSE [done |-> FALSE, ret |-> None,
              out |-> <<"invalid_id">> \o formula_prompt(formulas)]

\* the same rejecting value <= min_value
get_valid_float_strict(prompt, min_value, line) ==
    LET value == ParseFloat(Strip(line))
    IN  IF value = ValueError
        THEN [done |-> FALSE, ret |-> None, out |-> <<"need_number", prompt>>]
        ELSE IF FLt(value, min_value) \/ value = min_value
        THEN [done |-> FALSE, ret |-> None, out |-> <<"below_minimum", prompt>>]
        ELSE [done |-> TRUE, ret |-> Some(value), out |-> <<>>]

get_valid_float(prompt, min_value, line) ==
    LET value == ParseFloat(Strip(line))
    IN  IF value = ValueError
        THEN [done |-> FALSE, ret |-> None, out |-> <<"need_number", prompt>>]
        ELSE IF FLt(value, min_value)
        THEN [done |-> FALSE, ret |-> None, out |-> <<"below_minimum", prompt>>]
        ELSE [done |-> TRUE, ret |-> Some(value), out |-> <<>>]

(***************************************************************************)
(* The dosage engine.                                                      *)
(***************************************************************************)
\* the mass without the dilution factor
Mass_no_dilution(concentration, volume_l, dilution_factor) ==
    FDiv1000(FMul(concentration, volume_l))

\* mass = concentration * volume_l * dilution_factor / 1000
Mass(concentration, volume_l, dilution_factor) ==
    FDiv1000(FMul(FMul(concentration, volume_l), dilution_factor))

\* dilution_factor >= 1 in place of > 1
is_stock_solution_ge(dilution_factor) == ~FLt(dilution_factor, Num(1))

\* is_stock_solution = dilution_factor > 1
is_stock_solution(dilution_factor) == FGt(dilution_factor, Num(1))

\* the row table.add_row receives for one chemical
TableRow(chemical, volume_l, dilution_factor) ==
    [category         |-> chemical.category,
     name             |-> chemical.name,
     chemical_formula |-> IF chemical.chemical_formula = ""
                          THEN "-" ELSE chemical.chemical_formula,
     concentration    |-> chemical.concentration,
     mass             |-> Mass(chemical.concentration, volume_l, dilution_factor),
     stock_solution   |-> IF is_stock_solution(dilution_factor) THEN "yes" ELSE "no"]

Report(kind, id, name, volume_l, dilution_factor, rows) ==
    [kind |-> kind, id |-> id, name |-> name, volume |-> volume_l,
     dilution |-> dilution_factor, rows |-> rows]

\* process_formula, lines 105-106: the formula is not in the list
formula_not_found(formula_id, volume_l, dilution_factor) ==
    [ret |-> Report("formula_not_found", formula_id, "", volume_l,
                    dilution_factor, <<>>),
     raised |-> FALSE, out |-> <<>>, calls |-> 0, opened |-> 0, closed |-> 0]

\* process_formula, lines 108-143: r is what get_formula_chemicals answered.
\* A concentration that is a text makes the multiplication raise TypeError.
compute_doses(id, name, volume_l, dilution_factor, r) ==
    LET chemicals == r.ret
        none      == Report("no_chemicals", id, name, volume_l, dilution_factor, <<>>)
        rows      == [i \in 1..Len(chemicals) |->
                        TableRow(chemicals[i], volume_l, dilution_factor)]
    IN  [ret    |-> IF r.raised \/ chemicals = <<>>
                       \/ \E i \in 1..Len(chemicals) :
                            chemicals[i].concentration.k = "text"
                    THEN none
                    ELSE Report("report", id, name, volume_l, dilution_factor, rows),
         raised |-> \/ r.raised
                    \/ \E i \in 1..Len(chemicals) :
                         chemicals[i].concentration.k = "text",
         out    |-> r.out, calls |-> 1, opened |-> r.opened, closed |-> r.closed]

\* the same without the lookup of the formula in the list
process_formula_no_lookup(formula_id, volume_l, dilution_factor, formulas, res, fail) ==
    compute_doses(formula_id, "", volume_l, dilution_factor,
                  get_formula_chemicals(res, fail))

\* res and fail are what the store answers if it is asked for the chemicals;
\* calls counts the store accesses made
process_formula(formula_id, volume_l, dilution_factor, formulas, res, fail) ==
    LET found == {i \in 1..Len(formulas) : formulas[i].id = formula_id}
    IN  IF found = {}
        THEN formula_not_found(formula_id, volume_l, dilution_factor)
        ELSE LET selected_formula ==
                     formulas[CHOOSE i \in found : \A j \in found : i <= j]
             IN  compute_doses(selected_formula.id, selected_formula.name,
                               volume_l, dilution_factor,
                               get_formula_chemicals(res, fail))

(***************************************************************************)
(* The session.                                                            *)
(***************************************************************************)
\* the rejected inputs one behaviour may hold: the prompt loops themselves
\* have no retry limit
MaxRejects == 2

\* the lines the operator may type at a prompt
Lines ==
    { <<"1">>, <<" ", "1", " ">>, <<"0", "1">>, <<"2">>, <<"3">>, <<"7">>,
      <<"1", "2">>, <<"1", "0">>, <<"-", "1">>, <<>>, <<"x">>,
      <<"q">>, <<" ", "Q">>,
      <<"0">>, <<"0", ".", "0", "0", "0", "1">>,
      <<"0", ".", "0", "0", "0", "0", "5">>, <<".", "5">>,
      <<"n", "a", "n">> }

\* min_value of both calls of get_valid_float in main: 0.0001
MinVolume == Norm(1, -4)
MinDilution == Norm(1, -4)

VARIABLES
    db,               \* the store's content
    call,             \* the function that was called, and its arguments
    pc,               \* where the call stands
    out,              \* what was printed, prompts included
    openConns,        \* store connections open
    dbCalls,          \* store accesses made
    all_formulas,     \* main's variables: None until assigned
    formula_id,
    volume_l,
    dilution_factor,
    result,
    rejects,          \* inputs rejected so far
    lastLine,         \* the line the last input() returned
    lastFail,         \* what the last store access met
    ret               \* the value a directly called function returned

vars == <<db, call, pc, out, openConns, dbCalls, all_formulas, formula_id,
          volume_l, dilution_factor, result, rejects, lastLine, lastFail, ret>>

mainVars == <<all_formulas, formula_id, volume_l, dilution_factor, result>>

Call(fn, formulas, id, v, d, min) ==
    [fn |-> fn, formulas |-> formulas, id |-> id, v |-> v, d |-> d, min |-> min]

MainCall == Call("main", <<>>, 0, Num(0), Num(0), Num(0))

InitState(c) ==
    /\ db \in Stores
    /\ call = c
    /\ pc = "start"
    /\ out = <<>>
    /\ openConns = 0
    /\ dbCalls = 0
    /\ all_formulas = None
    /\ formula_id = None
    /\ volume_l = None
    /\ dilution_factor = None
    /\ result = None
    /\ rejects = 0
    /\ lastLine = None
    /\ lastFail = None
    /\ ret = None

\* python main.py
Init == InitState(MainCall)

\* A connection the function opened and did not close stays open until the
\* interpreter reclaims the object: at once, or at some later collection.
Leaked(r, reclaimed) == IF reclaimed THEN 0 ELSE r.opened - r.closed

\* the finally clause of main, up to its input()
Finally == <<"closing", "prompt_ack">>

\* the same without the test of the catalog
Main_Start_no_check ==
    /\ pc = "start"
    /\ call.fn = "main"
    /\ \E fail \in Failures, reclaimed \in BOOLEAN :
         LET r == get_all_formulas(db, fail)
         IN  /\ dbCalls' = dbCalls + 1
             /\ lastFail' = Some(fail)
             /\ openConns' = openConns + Leaked(r, reclaimed)
             /\ all_formulas' = Some(r.ret)
             /\ out' = out \o r.out \o formula_prompt(r.ret)
             /\ pc' = "select"
    /\ UNCHANGED <<db, call, formula_id, volume_l, dilution_factor, result,
                   rejects, lastLine, ret>>

\* main, lines 147-155: load the catalog; stop if it is empty, else enter
\* get_valid_formula_id up to its first input()
Main_Start ==
    /\ pc = "start"
    /\ call.fn = "main"
    /\ \E fail \in Failures, reclaimed \in BOOLEAN :
         LET r == get_all_formulas(db, fail)
         IN  /\ dbCalls' = dbCalls + 1
             /\ lastFail' = Some(fail)
             /\ openConns' = openConns + Leaked(r, reclaimed)
             /\ IF r.raised
                THEN /\ pc' = "exit"
                     /\ out' = out \o r.out
                     /\ UNCHANGED all_formulas
                ELSE /\ all_formulas' = Some(r.ret)
                     /\ IF r.ret = <<>>
                        THEN /\ out' = out \o r.out \o <<"no_formula_data", "prompt_ack">>
                             /\ pc' = "ack"
                        ELSE /\ out' = out \o r.out \o formula_prompt(r.ret)
                             /\ pc' = "select"
    /\ UNCHANGED <<db, call, formula_id, volume_l, dilution_factor, result,
                   rejects, lastLine, ret>>

\* main, lines 155-160: one line at the formula prompt
Main_SelectFormula ==
    /\ pc = "select"
    /\ \E line \in Lines :
         LET r == get_valid_formula_id(all_formulas[1], line)
         IN  /\ lastLine' = Some(line)
             /\ IF r.done
                THEN /\ formula_id' = r.ret
                     /\ rejects' = rejects
                     /\ IF r.ret = None
                        THEN /\ out' = out \o r.out \o Finally
                             /\ pc' = "ack"
                        ELSE /\ out' = out \o r.out \o <<"prompt_volume">>
                             /\ pc' = "volume"
                ELSE /\ rejects < MaxRejects
                     /\ rejects' = rejects + 1
                     /\ out' = out \o r.out
                     /\ UNCHANGED <<formula_id, pc>>
    /\ UNCHANGED <<db, call, openConns, dbCalls, all_formulas, volume_l,
                   dilution_factor, result, lastFail, ret>>

\* main, lines 160-163: one line at the volume prompt
Main_Volume ==
    /\ pc = "volume"
    /\ \E line \in Lines :
         LET r == get_valid_float("prompt_volume", MinVolume, line)
         IN  /\ lastLine' = Some(line)
             /\ IF r.done
                THEN /\ volume_l' = r.ret
                     /\ rejects' = rejects
                     /\ out' = out \o r.out \o <<"prompt_dilution">>
                     /\ pc' = "dilution"
                ELSE /\ rejects < MaxRejects
                     /\ rejects' = rejects + 1
                     /\ out' = out \o r.out
                     /\ UNCHANGED <<volume_l, pc>>
    /\ UNCHANGED <<db, call, openConns, dbCalls, all_formulas, formula_id,
                   dilution_factor, result, lastFail, ret>>

\* main, lines 163-166: one line at the dilution prompt
Main_Dilution ==
    /\ pc = "dilution"
    /\ \E line \in Lines :
         LET r == get_valid_float("prompt_dilution", MinDilution, line)
         IN  /\ lastLine' = Some(line)
             /\ IF r.done
                THEN /\ dilution_factor' = r.ret
                     /\ rejects' = rejects
                     /\ out' = out \o r.out
                     /\ pc' = "process"
                ELSE /\ rejects < MaxRejects
                     /\ rejects' = rejects + 1
                     /\ out' = out \o r.out
                     /\ UNCHANGED <<dilution_factor, pc>>
    /\ UNCHANGED <<db, call, openConns, dbCalls, all_formulas, formula_id,
                   volume_l, result, lastFail, ret>>

\* main, lines 166-175: process_formula, print its result, or report the
\* exception it raised; then the finally clause
Main_Process ==
    /\ pc = "process"
    /\ \E fail \in Failures, reclaimed \in BOOLEAN,
          res \in QueryChemicals(db, formula_id[1]) :
         LET r == process_formula(formula_id[1], volume_l[1], dilution_factor[1],
                                  all_formulas[1], res, fail)
         IN  /\ dbCalls' = dbCalls + r.calls
             /\ lastFail' = IF r.calls = 0 THEN lastFail ELSE Some(fail)
             /\ openConns' = openConns + Leaked(r, reclaimed)
             /\ IF r.raised
                THEN /\ out' = out \o r.out \o <<"error">> \o Finally
                     /\ result' = None
                ELSE /\ out' = out \o r.out \o <<"result">> \o Finally
                     /\ result' = Some(r.ret)
    /\ pc' = "ack"
    /\ UNCHANGED <<db, call, all_formulas, formula_id, volume_l, dilution_factor,
                   rejects, lastLine, ret>>

AtPrompt == pc \in {"select", "volume", "dilution"}

\* the same without the finally clause
Main_Interrupt_abrupt ==
    /\ AtPrompt
    /\ out' = out \o <<"interrupted">>
    /\ pc' = "exit"
    /\ UNCHANGED <<db, call, openConns, dbCalls, mainVars, rejects, lastLine,
                   lastFail, ret>>

\* main, lines 169-175: KeyboardInterrupt out of an input() of the try block
Main_Interrupt ==
    /\ AtPrompt
    /\ out' = out \o <<"interrupted">> \o Finally
    /\ pc' = "ack"
    /\ UNCHANGED <<db, call, openConns, dbCalls, mainVars, rejects, lastLine,
                   lastFail, ret>>

\* the same without the except and finally clauses
Main_EOF_abrupt ==
    /\ AtPrompt
    /\ pc' = "exit"
    /\ UNCHANGED <<db, call, out, openConns, dbCalls, mainVars, rejects, lastLine,
                   lastFail, ret>>

\* main, lines 171-175: end of input, EOFError out of an input() of the try block
Main_EOF ==
    /\ AtPrompt
    /\ out' = out \o <<"error">> \o Finally
    /\ pc' = "ack"
    /\ UNCHANGED <<db, call, openConns, dbCalls, mainVars, rejects, lastLine,
                   lastFail, ret>>

\* main, lines 150-151 and 175: the last input() ends (Enter, end of input or an
\* interrupt), and with it main and the process
Main_Ack ==
    /\ pc = "ack"
    /\ pc' = "exit"
    /\ UNCHANGED <<db, call, out, openConns, dbCalls, mainVars, rejects, lastLine,
                   lastFail, ret>>

Next ==
    \/ Main_Start
    \/ Main_SelectFormula
    \/ Main_Volume
    \/ Main_Dilution
    \/ Main_Process
    \/ Main_Interrupt
    \/ Main_EOF
    \/ Main_Ack

Spec == Init /\ [][Next]_vars

(***************************************************************************)
(* The functions called directly, as a caller or a test would: one call per *)
(* behaviour, with arguments main itself may never pass.                     *)
(***************************************************************************)
CallFloats ==
    { Num(-1), Num(0), Norm(5, -5), Norm(1, -4), Norm(5, -1), Num(1), Num(2),
      Num(10), NaN, Inf(1) }

CallIds == {1, 2, 3, 7, 12}

\* the lists of formulas a caller may hold: the catalog of any store
CallFormulas == {get_all_formulas(s, "none").ret : s \in Stores}

CallFloors == {Num(0), Norm(1, -4), Num(1)}

Calls ==
    {MainCall, Call("get_all_formulas", <<>>, 0, Num(0), Num(0), Num(0))}
    \cup {Call("get_formula_chemicals", <<>>, id, Num(0), Num(0), Num(0)) :
            id \in CallIds}
    \cup {Call("process_formula", fs, id, v, d, Num(0)) :
            fs \in CallFormulas, id \in CallIds, v \in CallFloats, d \in CallFloats}
    \cup {Call("get_valid_formula_id", fs, 0, Num(0), Num(0), Num(0)) :
            fs \in CallFormulas}
    \cup {Call("get_valid_float", <<>>, 0, Num(0), Num(0), min) : min \in CallFloors}

InitCalls == \E c \in Calls : InitState(c)

callVars == <<db, call, mainVars, rejects>>

Call_get_all_formulas ==
    /\ pc = "start"
    /\ call.fn = "get_all_formulas"
    /\ \E fail \in Failures, reclaimed \in BOOLEAN :
         LET r == get_all_formulas(db, fail)
         IN  /\ dbCalls' = dbCalls + 1
             /\ lastFail' = Some(fail)
             /\ openConns' = openConns + Leaked(r, reclaimed)
             /\ out' = out \o r.out
             /\ ret' = IF r.raised THEN None ELSE Some(r.ret)
             /\ pc' = IF r.raised THEN "raised" ELSE "returned"
    /\ UNCHANGED <<callVars, lastLine>>

Call_get_formula_chemicals ==
    /\ pc = "start"
    /\ call.fn = "get_formula_chemicals"
    /\ \E fail \in Failures, reclaimed \in BOOLEAN,
          res \in QueryChemicals(db, call.id) :
         LET r == get_formula_chemicals(res, fail)
         IN  /\ dbCalls' = dbCalls + 1
             /\ lastFail' = Some(fail)
             /\ openConns' = openConns + Leaked(r, reclaimed)
             /\ out' = out \o r.out
             /\ ret' = IF r.raised THEN None ELSE Some(r.ret)
             /\ pc' = IF r.raised THEN "raised" ELSE "returned"
    /\ UNCHANGED <<callVars, lastLine>>

Call_process_formula ==
    /\ pc = "start"
    /\ call.fn = "process_formula"
    /\ \E fail \in Failures, reclaimed \in BOOLEAN,
          res \in QueryChemicals(db, call.id) :
         LET r == process_formula(call.id, call.v, call.d, call.formulas, res, fail)
         IN  /\ dbCalls' = dbCalls + r.calls
             /\ lastFail' = IF r.calls = 0 THEN lastFail ELSE Some(fail)
             /\ openConns' = openConns + Leaked(r, reclaimed)
             /\ out' = out \o r.out
             /\ ret' = IF r.raised THEN None ELSE Some(r.ret)
             /\ pc' = IF r.raised THEN "raised" ELSE "returned"
    /\ UNCHANGED <<callVars, lastLine>>

\* get_valid_formula_id up to its first input()
Call_get_valid_formula_id ==
    /\ pc = "start"
    /\ call.fn = "get_valid_formula_id"
    /\ out' = out \o formula_prompt(call.formulas)
    /\ pc' = "in_formula_id"
    /\ UNCHANGED <<callVars, openConns, dbCalls, lastLine, lastFail, ret>>

\* one line at the prompt of get_valid_formula_id
Call_FormulaLine ==
    /\ pc = "in_formula_id"
    /\ \E line \in Lines :
         LET r == get_valid_formula_id(call.formulas, line)
         IN  /\ lastLine' = Some(line)
             /\ out' = out \o r.out
             /\ IF r.done
                THEN /\ ret' = r.ret
                     /\ pc' = "returned"
                     /\ rejects' = rejects
                ELSE /\ rejects < MaxRejects
                     /\ rejects' = rejects + 1
                     /\ UNCHANGED <<ret, pc>>
    /\ UNCHANGED <<db, call, mainVars, openConns, dbCalls, lastFail>>

\* get_valid_float up to its first input()
Call_get_valid_float ==
    /\ pc = "start"
    /\ call.fn = "get_valid_float"
    /\ out' = out \o <<"prompt_number">>
    /\ pc' = "in_float"
    /\ UNCHANGED <<callVars, openConns, dbCalls, lastLine, lastFail, ret>>

\* one line at the prompt of get_valid_float
Call_FloatLine ==
    /\ pc = "in_float"
    /\ \E line \in Lines :
         LET r == get_valid_float("prompt_number", call.min, line)
         IN  /\ lastLine' = Some(line)
             /\ out' = out \o r.out
             /\ IF r.done
                THEN /\ ret' = r.ret
                     /\ pc' = "returned"
                     /\ rejects' = rejects
                ELSE /\ rejects < MaxRejects
                     /\ rejects' = rejects + 1
                     /\ UNCHANGED <<ret, pc>>
    /\ UNCHANGED <<db, call, mainVars, openConns, dbCalls, lastFail>>

\* KeyboardInterrupt or EOFError out of input(): neither function catches it
Call_InputRaises ==
    /\ pc \in {"in_formula_id", "in_float"}
    /\ pc' = "raised"
    /\ UNCHANGED <<callVars, out, openConns, dbCalls, lastLine, lastFail, ret>>

NextCalls ==
    \/ Next
    \/ Call_get_all_formulas
    \/ Call_get_formula_chemicals
    \/ Call_process_formula
    \/ Call_get_valid_formula_id
    \/ Call_FormulaLine
    \/ Call_get_valid_float
    \/ Call_FloatLine
    \/ Call_InputRaises

SpecCalls == InitCalls /\ [][NextCalls]_vars

(***************************************************************************)
(* Properties.                                                             *)
(***************************************************************************)
IsMain == call.fn = "main"

Printed(message) == \E i \in 1..Len(out) : out[i] = message

\* the report process_formula produced, with the arguments it was given
Produced ==
    IF IsMain THEN result
    ELSE IF call.fn = "process_formula" /\ pc = "returned" THEN ret
    ELSE None

HasReport == Produced # None /\ Produced[1].kind = "report"

ArgId == IF IsMain THEN formula_id[1] ELSE call.id
ArgVolume == IF IsMain THEN volume_l[1] ELSE call.v
ArgDilution == IF IsMain THEN dilution_factor[1] ELSE call.d
ArgFormulas == IF IsMain THEN all_formulas[1] ELSE call.formulas

Rows == Produced[1].rows

Positive(x) == x.k = "fin" /\ x.m > 0
NonNegative(x) == x.k = "fin" /\ x.m >= 0

\* the concentrations the store holds for a formula, NULL read as 0
StoredConcentrations(fid) ==
    {IF j.concentration = NullNum THEN Num(0) ELSE j.concentration :
        j \in Joined(db, fid)}

\* C1: for positive volume and dilution factor, the row of every chemical of
\* non-negative concentration carries mass = concentration * volume * dilution
\* / 1000, which is >= 0; the report has one row per chemical of the formula;
\* 150 and 50 mg/L give 3 g and 1 g at 2 L and 10x, 0.15 g and 0.05 g at 1 L, 1x.
C1_Mass ==
    (HasReport /\ Positive(ArgVolume) /\ Positive(ArgDilution)) =>
        /\ Len(Rows) = Cardinality(Joined(db, ArgId))
        /\ {Rows[i].concentration : i \in 1..Len(Rows)} = StoredConcentrations(ArgId)
        /\ \A i \in 1..Len(Rows) :
             NonNegative(Rows[i].concentration) =>
                /\ FMul(Rows[i].mass, Num(1000))
                     = FMul(FMul(Rows[i].concentration, ArgVolume), ArgDilution)
                /\ NonNegative(Rows[i].mass)
        /\ (ArgVolume = Num(2) /\ ArgDilution = Num(10)) =>
             \A i \in 1..Len(Rows) :
                /\ Rows[i].concentration = Num(150) => Rows[i].mass = Num(3)
                /\ Rows[i].concentration = Num(50) => Rows[i].mass = Num(1)
        /\ (ArgVolume = Num(1) /\ ArgDilution = Num(1)) =>
             \A i \in 1..Len(Rows) :
                /\ Rows[i].concentration = Num(150) => Rows[i].mass = Norm(15, -2)
                /\ Rows[i].concentration = Num(50) => Rows[i].mass = Norm(5, -2)

\* scenario B came out of a session: 2 L at 10x, masses 3 g and 1 g
C1_Witness ==
    /\ IsMain
    /\ HasReport
    /\ ArgVolume = Num(2)
    /\ ArgDilution = Num(10)
    /\ {Rows[i].mass : i \in 1..Len(Rows)} = {Num(3), Num(1)}

\* x > 1, from the digits of x
GreaterThanOne(x) ==
    \/ x.k = "inf" /\ x.m > 0
    \/ /\ x.k = "fin"
       /\ IF x.e >= 0 THEN x.m * Pow10(x.e) > 1 ELSE x.m > Pow10(0 - x.e)

\* C2: every row of a report carries the stock-solution flag, which is "yes"
\* iff dilution_factor > 1: the same on all rows, "no" at 1 and at 0.5.
C2_StockFlag ==
    HasReport =>
        /\ \A i \in 1..Len(Rows) :
             (Rows[i].stock_solution = "yes") <=> GreaterThanOne(ArgDilution)
        /\ \A i \in 1..Len(Rows) : Rows[i].stock_solution \in {"yes", "no"}
        /\ \A i, j \in 1..Len(Rows) : Rows[i].stock_solution = Rows[j].stock_solution
        /\ ArgDilution \in {Num(1), Norm(5, -1), Norm(1, -4)} =>
             \A i \in 1..Len(Rows) : Rows[i].stock_solution = "no"
        /\ ArgDilution = Num(10) =>
             \A i \in 1..Len(Rows) : Rows[i].stock_solution = "yes"

\* a report at dilution exactly 1 over two chemicals of different concentration
\* and category
C2_Witness ==
    /\ HasReport
    /\ ArgDilution = Num(1)
    /\ Len(Rows) = 2
    /\ Rows[1].concentration # Rows[2].concentration
    /\ Rows[1].category # Rows[2].category
    /\ Rows[1].stock_solution = "no"

IdsOf(formulas) == {formulas[i].id : i \in 1..Len(formulas)}

ProcessReturned == call.fn = "process_formula" /\ pc = "returned"

\* C5: process_formula called with an id that is not in the list returns the
\* "formula not found" message without any access to the store; with a formula
\* that has no chemicals it returns the "no chemicals" message; a report, and
\* with it any row, exists only for a listed formula that has chemicals.
C5_NoComputation ==
    /\ (ProcessReturned /\ call.id \notin IdsOf(call.formulas)) =>
          /\ ret[1].kind = "formula_not_found"
          /\ ret[1].rows = <<>>
          /\ dbCalls = 0 /\ lastFail = None /\ openConns = 0 /\ out = <<>>
    /\ (ProcessReturned /\ call.id \in IdsOf(call.formulas)
          /\ Joined(db, call.id) = {}) =>
          /\ ret[1].kind = "no_chemicals"
          /\ ret[1].rows = <<>>
    /\ HasReport =>
          /\ ArgId \in IdsOf(ArgFormulas)
          /\ Joined(db, ArgId) # {}
          /\ lastFail = Some("none")
          /\ Rows # <<>>
    /\ (Produced # None /\ Produced[1].kind # "report") => Rows = <<>>

\* "not found" was returned for an id the store holds chemicals for
C5_Witness ==
    /\ ProcessReturned
    /\ ret[1].kind = "formula_not_found"
    /\ Joined(db, call.id) # {}
    /\ call.formulas # <<>>

FloatReturned == call.fn = "get_valid_float" /\ pc = "returned"

LineFloor == <<"0", ".", "0", "0", "0", "1">>
LineBelowFloor == <<"0", ".", "0", "0", "0", "0", "5">>

\* C3 as claimed, at the floor main passes: a number get_valid_float returns
\* is strictly above 0.0001.
C3_AboveFloor ==
    /\ (FloatReturned /\ call.min = MinVolume /\ ret[1].k = "fin") =>
          FGt(ret[1], call.min)
    /\ (IsMain /\ volume_l # None /\ volume_l[1].k = "fin") =>
          FGt(volume_l[1], MinVolume)
    /\ (IsMain /\ dilution_factor # None /\ dilution_factor[1].k = "fin") =>
          FGt(dilution_factor[1], MinDilution)

\* C3, amended: get_valid_float rejects, with a message and a new prompt, the
\* lines that are no number and those whose value is below min_value, and
\* returns the value of any other line: never a value below the floor, but the
\* floor itself (0.0001 at the floor 0.0001).
C3_NotBelowFloor ==
    /\ FloatReturned =>
          /\ ret # None
          /\ ret[1] = ParseFloat(lastLine[1])
          /\ ret[1] # ValueError
          /\ ~FLt(ret[1], call.min)
    /\ (call.fn = "get_valid_float" /\ pc = "in_float" /\ lastLine # None) =>
          LET v == ParseFloat(lastLine[1])
          IN  /\ v = ValueError \/ FLt(v, call.min)
              /\ rejects >= 1
              /\ out[Len(out)] = "prompt_number"
              /\ out[Len(out) - 1] =
                    IF v = ValueError THEN "need_number" ELSE "below_minimum"
    /\ (call.fn = "get_valid_float" /\ call.min = MinVolume
          /\ lastLine = Some(LineFloor)) =>
          /\ pc = "returned"
          /\ ret = Some(Norm(1, -4))
    /\ (call.fn = "get_valid_float" /\ call.min = MinVolume
          /\ lastLine = Some(LineBelowFloor)) =>
          pc # "returned"
    /\ (IsMain /\ volume_l # None) => ~FLt(volume_l[1], MinVolume)
    /\ (IsMain /\ dilution_factor # None) => ~FLt(dilution_factor[1], MinDilution)

\* 0.0001 was typed at the floor 0.0001 and returned
C3_Witness ==
    /\ FloatReturned
    /\ call.min = MinVolume
    /\ lastLine = Some(LineFloor)
    /\ ret = Some(MinVolume)

FormulaIdCall == call.fn = "get_valid_formula_id"

StringForms(formulas) == {IntToStr(id) : id \in IdsOf(formulas)}

IsQuit(line) == Strip(line) \in {<<"q">>, <<"Q">>}

\* C4 as claimed: an id is returned only for an input that is the string form
\* of an id of the list.
C4_ExactStringForm ==
    /\ (FormulaIdCall /\ pc = "returned" /\ ret # None) =>
          lastLine[1] \in StringForms(call.formulas)
    /\ (IsMain /\ pc = "volume" /\ volume_l = None /\ rejects = 0) =>
          lastLine[1] \in StringForms(all_formulas[1])

\* C4, amended: the input is taken without the blanks around it.
\* get_valid_formula_id returns None on the quit token in either case, else an
\* id of the list, typed in its string form; a line that is neither (a negative
\* number, a word, the empty line, "01") is answered with the invalid id
\* message and a new prompt.
C4_FormulaId ==
    /\ (FormulaIdCall /\ pc = "returned") =>
          IF ret = None
          THEN /\ IsQuit(lastLine[1])
               /\ out[Len(out)] = "quit"
          ELSE /\ ret[1] \in IdsOf(call.formulas)
               /\ Strip(lastLine[1]) = IntToStr(ret[1])
               /\ ~IsQuit(lastLine[1])
    /\ (FormulaIdCall /\ pc = "in_formula_id" /\ lastLine # None) =>
          /\ Strip(lastLine[1]) \notin StringForms(call.formulas)
          /\ ~IsQuit(lastLine[1])
          /\ rejects >= 1
          /\ out[Len(out)] = "prompt_formula_id"
          /\ out[Len(out) - 2] = "invalid_id"
    /\ (FormulaIdCall /\ lastLine # None
          /\ lastLine[1] \in {<<"-", "1">>, <<>>, <<"x">>, <<"0", "1">>}) =>
          pc # "returned"
    /\ (IsMain /\ formula_id # None) =>
          formula_id[1] \in IdsOf(all_formulas[1])
    /\ (IsMain /\ pc = "select" /\ lastLine # None) =>
          /\ Strip(lastLine[1]) \notin StringForms(all_formulas[1])
          /\ ~IsQuit(lastLine[1])
          /\ out[Len(out) - 2] = "invalid_id"
    /\ (IsMain /\ Printed("quit")) =>
          /\ formula_id = None
          /\ IsQuit(lastLine[1])

\* the id 1 was returned for the line " 1 ", after a rejected line
C4_Witness ==
    /\ FormulaIdCall
    /\ pc = "returned"
    /\ ret = Some(1)
    /\ lastLine = Some(<<" ", "1", " ">>)
    /\ rejects >= 1

RepositoryCall == call.fn \in {"get_all_formulas", "get_formula_chemicals"}

Ended == pc \in {"ack", "exit"}

Count(message) == Cardinality({i \in 1..Len(out) : out[i] = message})

\* C6 as claimed: the process exits only after the closing message followed by
\* the acknowledgment prompt.
C6_ClosingThenAck ==
    (IsMain /\ pc = "exit") =>
        /\ Len(out) >= 2
        /\ out[Len(out) - 1] = "closing"
        /\ out[Len(out)] = "prompt_ack"

\* C6, amended: every session ends at the acknowledgment prompt, awaited before
\* the process exits; what precedes the prompt is the closing message, itself
\* preceded by the result, the quit, the interrupt or the error message, except
\* when the catalog is empty: then it is the "no formula data" message, and no
\* closing message is printed.
C6_AckBeforeExit ==
    /\ (IsMain /\ Ended) =>
          /\ Len(out) >= 2
          /\ out[Len(out)] = "prompt_ack"
          /\ Count("prompt_ack") = 1
          /\ IF all_formulas = Some(<<>>)
             THEN /\ out[Len(out) - 1] = "no_formula_data"
                  /\ Count("closing") = 0
             ELSE /\ out[Len(out) - 1] = "closing"
                  /\ Count("closing") = 1
                  /\ out[Len(out) - 2] \in {"result", "quit", "interrupted", "error"}
    /\ (IsMain /\ ~Ended) =>
          /\ Count("prompt_ack") = 0
          /\ Count("closing") = 0

\* a session ended after process_formula raised
C6_Witness ==
    /\ IsMain
    /\ pc = "exit"
    /\ dilution_factor # None
    /\ Printed("error")

\* C7: with an empty catalog main prints "no formula data" and goes to its
\* last input(): no list, no prompt for a formula, a volume or a dilution, no
\* line read, no second store access, no result.  A store failure gives the
\* empty catalog.
C7_EmptyCatalog ==
    /\ (IsMain /\ all_formulas = Some(<<>>)) =>
          /\ Ended
          /\ Printed("no_formula_data")
          /\ \A m \in {"formula_list", "no_formulas_found", "prompt_formula_id",
                       "prompt_volume", "prompt_dilution", "result", "invalid_id"} :
                ~Printed(m)
          /\ dbCalls = 1
          /\ lastLine = None /\ rejects = 0
          /\ formula_id = None /\ volume_l = None /\ dilution_factor = None
          /\ result = None
    /\ (IsMain /\ dbCalls = 1 /\ lastFail # Some("none")) =>
          all_formulas = Some(<<>>)
    /\ (IsMain /\ Printed("no_formula_data")) => all_formulas = Some(<<>>)

\* the store held no formula, and the session is over
C7_Witness ==
    /\ IsMain
    /\ pc = "exit"
    /\ db = DbEmpty
    /\ lastFail = Some("none")
    /\ all_formulas = Some(<<>>)

\* C9: once a repository call has returned, no connection is open.
C9_NoOpenConnection == pc # "start" => openConns = 0

FirstIndex(message) == CHOOSE i \in 1..Len(out) :
                          out[i] = message /\ \A j \in 1..(i - 1) : out[j] # message

\* C10: an interrupt at the formula, volume or dilution prompt is followed at
\* once by the closing message and the last input(), with no store access and
\* no result; so is the quit token; process_formula runs only once the formula
\* id, the volume and the dilution factor are set, asked for in that order.
C10_InterruptShutsDown ==
    /\ (IsMain /\ (Printed("interrupted") \/ Printed("quit"))) =>
          /\ Ended
          /\ Len(out) >= 3
          /\ out[Len(out) - 2] \in {"interrupted", "quit"}
          /\ out[Len(out) - 1] = "closing"
          /\ out[Len(out)] = "prompt_ack"
          /\ result = None /\ ~Printed("result")
          /\ dbCalls = 1
          /\ dilution_factor = None
    /\ (IsMain /\ (pc = "process" \/ dbCalls > 1 \/ result # None
                     \/ Printed("result"))) =>
          /\ formula_id # None /\ volume_l # None /\ dilution_factor # None
          /\ FirstIndex("prompt_formula_id") < FirstIndex("prompt_volume")
          /\ FirstIndex("prompt_volume") < FirstIndex("prompt_dilution")
    /\ (IsMain /\ volume_l # None) => formula_id # None
    /\ (IsMain /\ dilution_factor # None) => volume_l # None

\* a session interrupted at the dilution prompt has ended
C10_Witness ==
    /\ IsMain
    /\ pc = "exit"
    /\ Printed("interrupted")
    /\ volume_l # None
    /\ dilution_factor = None

=============================================================================
